---- MODULE Spec2Model ----
(***************************************************************************)
(* Model of the authentication and credential subsystem of the office      *)
(* resource locator (src/app/auth_routes.py, src/app/__init__.py,          *)
(* src/app/models.py).                                                     *)
(*                                                                         *)
(* Strings the code inspects character by character (passwords, redirect   *)
(* targets) are sequences of one-character strings; strings the code only  *)
(* compares (usernames, messages, endpoint names) are TLA+ strings.        *)
(* request.form.get / request.args.get return None for a missing field and *)
(* "" for an empty one; the handlers only test their truth value, so both  *)
(* are the empty sequence (the empty string for usernames) here.           *)
(***************************************************************************)
EXTENDS Integers, Sequences, FiniteSets, TLC

(***************************************************************************)
(* Bounds                                                                  *)
(***************************************************************************)
\* Largest primary key the user table hands out in the model.
MaxId == 2

\* Browsers (cookie jars) talking to the application.
Clients == {"c1", "c2"}

(***************************************************************************)
(* Characters                                                              *)
(***************************************************************************)
UpperSeq == <<"A","B","C","D","E","F","G","H","I","J","K","L","M",
              "N","O","P","Q","R","S","T","U","V","W","X","Y","Z">>

LowerSeq == <<"a","b","c","d","e","f","g","h","i","j","k","l","m",
              "n","o","p","q","r","s","t","u","v","w","x","y","z">>

\* re [A-Z]
UpperChars == {UpperSeq[i] : i \in DOMAIN UpperSeq}

\* re [a-z]
LowerChars == {LowerSeq[i] : i \in DOMAIN LowerSeq}

\* re \d
DigitChars == {"0","1","2","3","4","5","6","7","8","9"}

\* re [!@#$%^&*(),.?\":{}|<>]
SpecialChars == {"!","@","#","$","%","^","&","*","(",")",",",".","?","\"",
                 ":","{","}","|","<",">"}

\* re.search(r"[...]", s)
re_search(class, s) == \E i \in DOMAIN s : s[i] \in class

\* str.lower() on one character
lower(ch) ==
    IF ch \in UpperChars
    THEN LowerSeq[CHOOSE i \in DOMAIN UpperSeq : UpperSeq[i] = ch]
    ELSE ch

(***************************************************************************)
(* Password policy: validate_password                                      *)
(***************************************************************************)
MinPasswordLength == 10

MsgLength  == "Password must be at least 10 characters long"
MsgUpper   == "Password must contain at least one uppercase letter"
MsgLower   == "Password must contain at least one lowercase letter"
MsgDigit   == "Password must contain at least one number"
MsgSpecial == "Password must contain at least one special character (!@#$%^&*(),.?\":{}|<>)"
MsgSame    == "New password must be different from the current password"

\* Variant of validate_password that lacks the last rule (the new password
\* may equal the current one).
validate_password_allows_same(password, current_password) ==
    IF Len(password) < MinPasswordLength THEN [ok |-> FALSE, msg |-> MsgLength]
    ELSE IF ~re_search(UpperChars, password) THEN [ok |-> FALSE, msg |-> MsgUpper]
    ELSE IF ~re_search(LowerChars, password) THEN [ok |-> FALSE, msg |-> MsgLower]
    ELSE IF ~re_search(DigitChars, password) THEN [ok |-> FALSE, msg |-> MsgDigit]
    ELSE IF ~re_search(SpecialChars, password) THEN [ok |-> FALSE, msg |-> MsgSpecial]
    ELSE [ok |-> TRUE, msg |-> ""]

\* Variant of validate_password that demands two characters more than the
\* policy's minimum length.
validate_password_longer_minimum(password, current_password) ==
    IF Len(password) < MinPasswordLength + 2 THEN [ok |-> FALSE, msg |-> MsgLength]
    ELSE IF ~re_search(UpperChars, password) THEN [ok |-> FALSE, msg |-> MsgUpper]
    ELSE IF ~re_search(LowerChars, password) THEN [ok |-> FALSE, msg |-> MsgLower]
    ELSE IF ~re_search(DigitChars, password) THEN [ok |-> FALSE, msg |-> MsgDigit]
    ELSE IF ~re_search(SpecialChars, password) THEN [ok |-> FALSE, msg |-> MsgSpecial]
    ELSE IF current_password # <<>> /\ password = current_password
         THEN [ok |-> FALSE, msg |-> MsgSame]
    ELSE [ok |-> TRUE, msg |-> ""]

\* Variant of validate_password that looks for a digit before it looks for
\* the letters.
validate_password_digit_first(password, current_password) ==
    IF Len(password) < MinPasswordLength THEN [ok |-> FALSE, msg |-> MsgLength]
    ELSE IF ~re_search(DigitChars, password) THEN [ok |-> FALSE, msg |-> MsgDigit]
    ELSE IF ~re_search(UpperChars, password) THEN [ok |-> FALSE, msg |-> MsgUpper]
    ELSE IF ~re_search(LowerChars, password) THEN [ok |-> FALSE, msg |-> MsgLower]
    ELSE IF ~re_search(SpecialChars, password) THEN [ok |-> FALSE, msg |-> MsgSpecial]
    ELSE IF current_password # <<>> /\ password = current_password
         THEN [ok |-> FALSE, msg |-> MsgSame]
    ELSE [ok |-> TRUE, msg |-> ""]

\* The result tuple (is_valid, error_message) is the record [ok, msg].
validate_password(password, current_password) ==
    IF Len(password) < MinPasswordLength THEN [ok |-> FALSE, msg |-> MsgLength]
    ELSE IF ~re_search(UpperChars, password) THEN [ok |-> FALSE, msg |-> MsgUpper]
    ELSE IF ~re_search(LowerChars, password) THEN [ok |-> FALSE, msg |-> MsgLower]
    ELSE IF ~re_search(DigitChars, password) THEN [ok |-> FALSE, msg |-> MsgDigit]
    ELSE IF ~re_search(SpecialChars, password) THEN [ok |-> FALSE, msg |-> MsgSpecial]
    ELSE IF current_password # <<>> /\ password = current_password
         THEN [ok |-> FALSE, msg |-> MsgSame]
    ELSE [ok |-> TRUE, msg |-> ""]

(***************************************************************************)
(* Redirect targets: urllib.parse.urlparse / urljoin and is_safe_url        *)
(***************************************************************************)
\* str.find(ch): index of the first occurrence (1-based), 0 when absent
find(s, chars) ==
    LET hits == {i \in DOMAIN s : s[i] \in chars}
    IN IF hits = {} THEN 0 ELSE CHOOSE i \in hits : \A j \in hits : i <= j

\* s[i:] with a 0-based start, as in Python
from(s, i) == SubSeq(s, i + 1, Len(s))

\* urllib.parse.scheme_chars
SchemeChars == UpperChars \cup LowerChars \cup DigitChars \cup {"+", "-", "."}

\* urlparse(url): the scheme (lower-cased), the netloc and the rest (path,
\* parameters, query and fragment, which the code never reads).
urlparse(url) ==
    LET i == find(url, {":"})
        hasScheme == /\ i > 1
                     /\ url[1] \in UpperChars \cup LowerChars
                     /\ \A j \in 1..(i-1) : url[j] \in SchemeChars
        scheme == IF hasScheme THEN [j \in 1..(i-1) |-> lower(url[j])] ELSE <<>>
        rest == IF hasScheme THEN from(url, i) ELSE url
        hasNetloc == Len(rest) >= 2 /\ rest[1] = "/" /\ rest[2] = "/"
        afterSlashes == from(rest, 2)
        k == find(afterSlashes, {"/", "?", "#"})
        netloc == IF ~hasNetloc THEN <<>>
                  ELSE IF k = 0 THEN afterSlashes ELSE SubSeq(afterSlashes, 1, k - 1)
        path == IF ~hasNetloc THEN rest
                ELSE IF k = 0 THEN <<>> ELSE from(afterSlashes, k - 1)
    IN [scheme |-> scheme, netloc |-> netloc, path |-> path]

\* urllib.parse.uses_relative and uses_netloc, as far as the schemes of the
\* model's targets go ("" is the empty scheme).
UsesRelative == {<<>>, <<"h","t","t","p">>, <<"h","t","t","p","s">>, <<"f","t","p">>}

UsesNetloc == UsesRelative

\* urlunparse for (scheme, netloc, path)
urlunparse(scheme, netloc, path) ==
    LET withNetloc ==
            IF netloc # <<>> \/ (scheme \in UsesNetloc /\ ~(Len(path) >= 2 /\ path[1] = "/" /\ path[2] = "/"))
            THEN <<"/", "/">> \o netloc
                 \o (IF path # <<>> /\ path[1] # "/" THEN <<"/">> ELSE <<>>) \o path
            ELSE path
    IN IF scheme # <<>> THEN scheme \o <<":">> \o withNetloc ELSE withNetloc

\* the directory part of a base path: everything up to its last "/"
dirname(path) ==
    LET slashes == {i \in DOMAIN path : path[i] = "/"}
    IN IF slashes = {} THEN <<>>
       ELSE SubSeq(path, 1, CHOOSE i \in slashes : \A j \in slashes : j <= i)

\* urljoin(base, url); dot segments of the joined path are left as they are
\* (they change neither the scheme nor the netloc).
urljoin(base, url) ==
    IF base = <<>> THEN url
    ELSE IF url = <<>> THEN base
    ELSE LET b == urlparse(base)
             u == urlparse(url)
             scheme == IF u.scheme = <<>> THEN b.scheme ELSE u.scheme
         IN IF scheme # b.scheme \/ scheme \notin UsesRelative THEN url
            ELSE IF scheme \in UsesNetloc /\ u.netloc # <<>>
                 THEN urlunparse(scheme, u.netloc, u.path)
            ELSE IF u.path = <<>> THEN urlunparse(scheme, b.netloc, b.path)
            ELSE IF u.path[1] = "/" THEN urlunparse(scheme, b.netloc, u.path)
            ELSE urlunparse(scheme, b.netloc, dirname(b.path) \o u.path)

\* request.host_url of the requests of the model
HostUrl == <<"h","t","t","p",":","/","/","l","o","c","a","l","h","o","s","t","/">>

is_safe_url(target) ==
    /\ target # <<>>
    /\ \E ref_url \in {urlparse(HostUrl)}, joined \in {urljoin(HostUrl, target)} :
           \E test_url \in {urlparse(joined)} :
               /\ test_url.scheme \in {<<"h","t","t","p">>, <<"h","t","t","p","s">>}
               /\ ref_url.netloc = test_url.netloc

\* The next query arguments the model's login requests carry: none, a path
\* of this site, an absolute URL of this host, an absolute URL of another
\* host, a protocol-relative URL of another host and a non-http scheme.
NextNone     == <<>>
NextPath     == <<"/","a","d","m","i","n","/","u","s","e","r","s">>
NextSameHost == <<"h","t","t","p",":","/","/","l","o","c","a","l","h","o","s","t","/","a","d","m","i","n">>
NextEvil     == <<"h","t","t","p","s",":","/","/","e","v","i","l",".","t","e","s","t","/","x">>
NextRelEvil  == <<"/","/","e","v","i","l",".","t","e","s","t","/","x">>
NextScript   == <<"j","a","v","a","s","c","r","i","p","t",":","a","l","e","r","t","(","1",")">>

NextArgs == {NextNone, NextPath, NextSameHost, NextEvil, NextRelEvil, NextScript}

\* the next arguments of the login requests of the state machine: one that
\* is_safe_url accepts and one that it rejects (login answers a request
\* without a next argument as it answers one with a rejected argument)
LoginNextArgs == {NextPath, NextEvil}

(***************************************************************************)
(* Inputs: usernames and passwords of the requests                         *)
(***************************************************************************)
\* "Admin123!@#": the default admin's password, also used by the fixtures
AdminPw   == <<"A","d","m","i","n","1","2","3","!","@","#">>
\* "Regular123!@#"
RegularPw == <<"R","e","g","u","l","a","r","1","2","3","!","@","#">>
\* "NewPassword456!@#"
NewPw     == <<"N","e","w","P","a","s","s","w","o","r","d","4","5","6","!","@","#">>
\* "weak"
WeakPw    == <<"w","e","a","k">>

\* form values of a password field; <<>> is a missing or empty field
Passwords == {<<>>, WeakPw, AdminPw, NewPw}

\* password values of the login form
LoginPasswords == {<<>>, AdminPw, RegularPw, NewPw}

\* values of the current_password field of the change-password form (an
\* empty field is answered as an empty new_password field is)
CurrentPasswords == {AdminPw, NewPw}

\* form values of a username field; "" is a missing or empty field
Usernames == {"", "admin", "testadmin", "regularuser"}

Ids == 1..MaxId

(***************************************************************************)
(* State                                                                   *)
(***************************************************************************)
VARIABLES
    tableExists,   \* the user table has been created (migrations, db.create_all)
    users,         \* rows of the user table: records id, username,
                   \* password_hash, is_admin, password_must_change
    session,       \* per client, the "_user_id" of its session cookie; 0: none
    resp,          \* the response to the last request
    pending,       \* per client, its create_user request that has passed the
                   \* checks of lines 191-210 and has not committed yet
    bootPending,   \* a create_default_admin call has found no "admin" row and
                   \* has not committed yet
    validation,    \* a call of validate_password: its arguments and result
    deleting,      \* per client, its delete_user request that has passed the
                   \* checks of lines 225-234 and has not committed yet
    floorplan,     \* rows of the floorplan table: records id, name,
                   \* image_filename
    resource       \* rows of the resource table: records id, name, type,
                   \* x_coordinate, y_coordinate, floorplan_id and the nine
                   \* type-specific columns

vars == <<tableExists, users, session, resp, pending, bootPending, validation, deleting,
          floorplan, resource>>

\* the tables of routes.py, which no handler of auth_routes.py touches
catalog == <<floorplan, resource>>

\* what the requests of the other clients and the start-up leave alone when
\* every request runs from its first line to its last without interleaving
inFlight == <<pending, bootPending, deleting>>

(***************************************************************************)
(* models.User                                                             *)
(***************************************************************************)
\* werkzeug.security.generate_password_hash: a one-way digest of the
\* password (an ideal hash: distinct passwords have distinct digests; the
\* random salt is left out).
generate_password_hash(password) == [method |-> "scrypt", digest |-> password]

check_password_hash(pwhash, password) == pwhash = generate_password_hash(password)

\* User.set_password
set_password(user, password) ==
    [user EXCEPT !.password_hash = generate_password_hash(password)]

\* User.check_password
check_password(user, password) == check_password_hash(user.password_hash, password)

\* User(username=..., is_admin=..., password_must_change=...) with its
\* password set, before it has a primary key
User(username, password, is_admin, password_must_change) ==
    [username |-> username, password_hash |-> generate_password_hash(password),
     is_admin |-> is_admin, password_must_change |-> password_must_change]

\* The primary key SQLite gives a new row of an INTEGER PRIMARY KEY table:
\* one more than the largest key in the table (1 for an empty table), so the
\* key of a deleted last row is given out again.
next_id(rows) ==
    IF rows = {} THEN 1
    ELSE (CHOOSE i \in {r.id : r \in rows} : \A r \in rows : r.id <= i) + 1

\* db.session.add(user); db.session.commit() for a new row
add_user(rows, user) ==
    rows \cup {[id |-> next_id(rows), username |-> user.username,
                password_hash |-> user.password_hash, is_admin |-> user.is_admin,
                password_must_change |-> user.password_must_change]}

\* User.query.filter_by(username=...): the matching rows
filter_by_username(username) == {u \in users : u.username = username}

\* User.query.get(id): the matching rows (none or one)
query_get(id) == {u \in users : u.id = id}

\* a modified row written back by db.session.commit()
update_user(old, new) == (users \ {old}) \cup {new}

(***************************************************************************)
(* Sessions (flask_login)                                                  *)
(***************************************************************************)
\* load_user: the account the session cookie of client c names, if any
load_user(c) == IF session[c] = 0 THEN {} ELSE query_get(session[c])

\* current_user.is_authenticated
is_authenticated(c) == load_user(c) # {}

current_user(c) == CHOOSE u \in load_user(c) : TRUE

\* login_user(user)
login_user(c, user) == [session EXCEPT ![c] = user.id]

\* logout_user()
logout_user(c) == [session EXCEPT ![c] = 0]

(***************************************************************************)
(* Responses                                                               *)
(***************************************************************************)
\* url_for(endpoint)
url_for(endpoint) == [endpoint |-> endpoint, url |-> <<>>]

\* a redirect target given as a URL (the sanitized next argument)
to_url(url) == [endpoint |-> "", url |-> url]

NoLocation == [endpoint |-> "", url |-> <<>>]

\* render_template(template) after flash(message): status 200
render_template(template, flash) ==
    [status |-> 200, template |-> template, location |-> NoLocation, flash |-> flash]

\* redirect(location) after flash(message): status 302
redirect(location, flash) ==
    [status |-> 302, template |-> "", location |-> location, flash |-> flash]

\* get_or_404 on a missing row
not_found == [status |-> 404, template |-> "", location |-> NoLocation, flash |-> <<>>]

\* an exception that leaves the handler (the table does not exist)
server_error == [status |-> 500, template |-> "", location |-> NoLocation, flash |-> <<>>]

\* login_manager.unauthorized() of @login_required: a redirect to
\* login_view with login_message flashed
unauthorized ==
    redirect(url_for("auth.login"), <<"Please log in to access this page.">>)

\* what a handler leaves behind: the table, the cookies and the response
outcome(rows, cookies, response) ==
    [users |-> rows, session |-> cookies, resp |-> response]

(***************************************************************************)
(* Handlers of auth_routes.py: each gives the outcome of one request of    *)
(* client c in the current state                                           *)
(***************************************************************************)
\* @login_required
login_required(c, out) ==
    IF is_authenticated(c) THEN out ELSE outcome(users, session, unauthorized)

\* Variant of login_success that follows a safe next argument before it
\* looks at password_must_change.
login_success_next_first(c, user, next_arg) ==
    LET next_page == IF next_arg # <<>> /\ ~is_safe_url(next_arg) THEN <<>> ELSE next_arg
    IN IF next_page # <<>>
       THEN outcome(users, login_user(c, user), redirect(to_url(next_page), <<>>))
       ELSE IF user.password_must_change
       THEN outcome(users, login_user(c, user),
                    redirect(url_for("auth.change_password"),
                        <<"You must change your password before continuing">>))
       ELSE outcome(users, login_user(c, user), redirect(url_for("main.admin"), <<>>))

\* Variant of login_success that follows the next argument without asking
\* is_safe_url.
login_success_unchecked_next(c, user, next_arg) ==
    IF user.password_must_change
    THEN outcome(users, login_user(c, user),
                 redirect(url_for("auth.change_password"),
                     <<"You must change your password before continuing">>))
    ELSE outcome(users, login_user(c, user),
                 redirect(IF next_arg # <<>> THEN to_url(next_arg)
                          ELSE url_for("main.admin"), <<>>))

\* login, from login_user(user) on: the session is bound to the account and
\* the request is redirected
login_success(c, user, next_arg) ==
    IF user.password_must_change
    THEN outcome(users, login_user(c, user),
                 redirect(url_for("auth.change_password"),
                     <<"You must change your password before continuing">>))
    ELSE LET next_page == IF next_arg # <<>> /\ ~is_safe_url(next_arg) THEN <<>> ELSE next_arg
         IN outcome(users, login_user(c, user),
                    redirect(IF next_page # <<>> THEN to_url(next_page)
                             ELSE url_for("main.admin"), <<>>))

\* Variant of login that lacks the is_admin test.
login_any_account(c, method, username, password, next_arg) ==
    IF is_authenticated(c)
    THEN IF current_user(c).password_must_change
         THEN outcome(users, session, redirect(url_for("auth.change_password"), <<>>))
         ELSE outcome(users, session, redirect(url_for("main.admin"), <<>>))
    ELSE IF method = "POST"
    THEN IF username = "" \/ password = <<>>
         THEN outcome(users, session,
                      render_template("login.html", <<"Username and password are required">>))
         ELSE IF ~tableExists THEN outcome(users, session, server_error)
         ELSE LET found == filter_by_username(username)
                  user == CHOOSE u \in found : TRUE
              IN IF found # {} /\ check_password(user, password)
                 THEN login_success(c, user, next_arg)
                 ELSE outcome(users, session,
                              render_template("login.html", <<"Invalid username or password">>))
    ELSE outcome(users, session, render_template("login.html", <<>>))

\* Variant of login that tells an unknown username from a wrong password.
login_names_unknown_user(c, method, username, password, next_arg) ==
    IF is_authenticated(c)
    THEN IF current_user(c).password_must_change
         THEN outcome(users, session, redirect(url_for("auth.change_password"), <<>>))
         ELSE outcome(users, session, redirect(url_for("main.admin"), <<>>))
    ELSE IF method = "POST"
    THEN IF username = "" \/ password = <<>>
         THEN outcome(users, session,
                      render_template("login.html", <<"Username and password are required">>))
         ELSE IF ~tableExists THEN outcome(users, session, server_error)
         ELSE LET found == filter_by_username(username)
                  user == CHOOSE u \in found : TRUE
              IN IF found = {}
                 THEN outcome(users, session, render_template("login.html", <<"Unknown username">>))
                 ELSE IF check_password(user, password)
                 THEN IF ~user.is_admin
                      THEN outcome(users, session,
                                   render_template("login.html",
                                       <<"Access denied. Admin privileges required.">>))
                      ELSE login_success(c, user, next_arg)
                 ELSE outcome(users, session,
                              render_template("login.html", <<"Invalid username or password">>))
    ELSE outcome(users, session, render_template("login.html", <<>>))

\* Variant of login that lacks the test of lines 77-80: it reads the
\* submitted credentials also when the session is bound to an account.
login_reauthenticates(c, method, username, password, next_arg) ==
    IF method = "POST"
    THEN IF username = "" \/ password = <<>>
         THEN outcome(users, session,
                      render_template("login.html", <<"Username and password are required">>))
         ELSE IF ~tableExists THEN outcome(users, session, server_error)
         ELSE LET found == filter_by_username(username)
                  user == CHOOSE u \in found : TRUE
              IN IF found # {} /\ check_password(user, password)
                 THEN IF ~user.is_admin
                      THEN outcome(users, session,
                                   render_template("login.html",
                                       <<"Access denied. Admin privileges required.">>))
                      ELSE login_success(c, user, next_arg)
                 ELSE outcome(users, session,
                              render_template("login.html", <<"Invalid username or password">>))
    ELSE outcome(users, session, render_template("login.html", <<>>))

\* /login, GET and POST
login(c, method, username, password, next_arg) ==
    IF is_authenticated(c)
    THEN IF current_user(c).password_must_change
         THEN outcome(users, session, redirect(url_for("auth.change_password"), <<>>))
         ELSE outcome(users, session, redirect(url_for("main.admin"), <<>>))
    ELSE IF method = "POST"
    THEN IF username = "" \/ password = <<>>
         THEN outcome(users, session,
                      render_template("login.html", <<"Username and password are required">>))
         ELSE IF ~tableExists THEN outcome(users, session, server_error)
         ELSE LET found == filter_by_username(username)
                  user == CHOOSE u \in found : TRUE
              IN IF found # {} /\ check_password(user, password)
                 THEN IF ~user.is_admin
                      THEN outcome(users, session,
                                   render_template("login.html",
                                       <<"Access denied. Admin privileges required.">>))
                      ELSE login_success(c, user, next_arg)
                 ELSE outcome(users, session,
                              render_template("login.html", <<"Invalid username or password">>))
    ELSE outcome(users, session, render_template("login.html", <<>>))

\* Variant of logout that lacks @login_required.
logout_unprotected(c) ==
    outcome(users, logout_user(c),
            redirect(url_for("main.index"), <<"You have been logged out successfully">>))

\* Variant of logout that answers without logout_user().
logout_keeps_session(c) ==
    login_required(c,
        outcome(users, session,
                redirect(url_for("main.index"), <<"You have been logged out successfully">>)))

\* /logout
logout(c) ==
    login_required(c,
        outcome(users, logout_user(c),
                redirect(url_for("main.index"), <<"You have been logged out successfully">>)))

\* Variant of change_password that ends the session once the password is
\* changed, so that the client has to log in with the new one.
change_password_ends_session(c, method, current_password, new_password, confirm_password) ==
    login_required(c,
        IF method = "POST"
        THEN IF current_password = <<>> \/ new_password = <<>> \/ confirm_password = <<>>
             THEN outcome(users, session,
                          render_template("change_password.html", <<"All fields are required">>))
             ELSE IF ~check_password(current_user(c), current_password)
             THEN outcome(users, session,
                          render_template("change_password.html",
                              <<"Current password is incorrect">>))
             ELSE IF new_password # confirm_password
             THEN outcome(users, session,
                          render_template("change_password.html", <<"New passwords do not match">>))
             ELSE LET v == validate_password(new_password, current_password)
                  IN IF ~v.ok
                     THEN outcome(users, session,
                                  render_template("change_password.html", <<v.msg>>))
                     ELSE outcome(
                              update_user(current_user(c),
                                  [set_password(current_user(c), new_password)
                                      EXCEPT !.password_must_change = FALSE]),
                              logout_user(c),
                              redirect(url_for("main.admin"), <<"Password changed successfully">>))
        ELSE outcome(users, session, render_template("change_password.html", <<>>)))

\* Variant of change_password that compares the new password with its
\* confirmation before it checks the current password.
change_password_match_first(c, method, current_password, new_password, confirm_password) ==
    login_required(c,
        IF method = "POST"
        THEN IF current_password = <<>> \/ new_password = <<>> \/ confirm_password = <<>>
             THEN outcome(users, session,
                          render_template("change_password.html", <<"All fields are required">>))
             ELSE IF new_password # confirm_password
             THEN outcome(users, session,
                          render_template("change_password.html", <<"New passwords do not match">>))
             ELSE IF ~check_password(current_user(c), current_password)
             THEN outcome(users, session,
                          render_template("change_password.html",
                              <<"Current password is incorrect">>))
             ELSE LET v == validate_password(new_password, current_password)
                  IN IF ~v.ok
                     THEN outcome(users, session,
                                  render_template("change_password.html", <<v.msg>>))
                     ELSE outcome(
                              update_user(current_user(c),
                                  [set_password(current_user(c), new_password)
                                      EXCEPT !.password_must_change = FALSE]),
                              session,
                              redirect(url_for("main.admin"), <<"Password changed successfully">>))
        ELSE outcome(users, session, render_template("change_password.html", <<>>)))

\* /change-password, GET and POST
change_password(c, method, current_password, new_password, confirm_password) ==
    login_required(c,
        IF method = "POST"
        THEN IF current_password = <<>> \/ new_password = <<>> \/ confirm_password = <<>>
             THEN outcome(users, session,
                          render_template("change_password.html", <<"All fields are required">>))
             ELSE IF ~check_password(current_user(c), current_password)
             THEN outcome(users, session,
                          render_template("change_password.html",
                              <<"Current password is incorrect">>))
             ELSE IF new_password # confirm_password
             THEN outcome(users, session,
                          render_template("change_password.html", <<"New passwords do not match">>))
             ELSE LET v == validate_password(new_password, current_password)
                  IN IF ~v.ok
                     THEN outcome(users, session,
                                  render_template("change_password.html", <<v.msg>>))
                     ELSE outcome(
                              update_user(current_user(c),
                                  [set_password(current_user(c), new_password)
                                      EXCEPT !.password_must_change = FALSE]),
                              session,
                              redirect(url_for("main.admin"), <<"Password changed successfully">>))
        ELSE outcome(users, session, render_template("change_password.html", <<>>)))

\* /admin/users
list_users(c) ==
    login_required(c,
        IF ~current_user(c).is_admin
        THEN outcome(users, session, redirect(url_for("main.index"), <<"Access denied">>))
        ELSE outcome(users, session, render_template("manage_users.html", <<>>)))

\* Variant of new_admin with is_admin left at its default.
new_admin_plain_user(username, password) == User(username, password, FALSE, TRUE)

\* Variant of new_admin with password_must_change left at its default.
new_admin_no_flag(username, password) == User(username, password, TRUE, FALSE)

\* create_user: the account it builds, User(username=..., is_admin=True,
\* password_must_change=True) with set_password(password)
new_admin(username, password) == User(username, password, TRUE, TRUE)

\* Variant of create_user that validates the password before it looks for
\* the username and then does not look for it.
create_user_no_lookup(c, username, password) ==
    login_required(c,
        IF ~current_user(c).is_admin
        THEN outcome(users, session, redirect(url_for("main.index"), <<"Access denied">>))
        ELSE IF username = "" \/ password = <<>>
        THEN outcome(users, session,
                     redirect(url_for("auth.list_users"), <<"Username and password are required">>))
        ELSE LET v == validate_password(password, <<>>)
             IN IF ~v.ok
                THEN outcome(users, session, redirect(url_for("auth.list_users"), <<v.msg>>))
                ELSE outcome(add_user(users, new_admin(username, password)),
                             session,
                             redirect(url_for("auth.list_users"),
                                 <<"Admin user '", username, "' created successfully">>)))

\* /admin/users/create
create_user(c, username, password) ==
    login_required(c,
        IF ~current_user(c).is_admin
        THEN outcome(users, session, redirect(url_for("main.index"), <<"Access denied">>))
        ELSE IF username = "" \/ password = <<>>
        THEN outcome(users, session,
                     redirect(url_for("auth.list_users"), <<"Username and password are required">>))
        ELSE IF filter_by_username(username) # {}
        THEN outcome(users, session,
                     redirect(url_for("auth.list_users"), <<"User '", username, "' already exists">>))
        ELSE LET v == validate_password(password, <<>>)
             IN IF ~v.ok
                THEN outcome(users, session, redirect(url_for("auth.list_users"), <<v.msg>>))
                ELSE outcome(add_user(users, new_admin(username, password)),
                             session,
                             redirect(url_for("auth.list_users"),
                                 <<"Admin user '", username, "' created successfully">>)))

\* Variant of delete_user that lacks the test for the caller's own id.
delete_user_any(c, user_id) ==
    login_required(c,
        IF ~current_user(c).is_admin
        THEN outcome(users, session, redirect(url_for("main.index"), <<"Access denied">>))
        ELSE IF query_get(user_id) = {}
        THEN outcome(users, session, not_found)
        ELSE LET user == CHOOSE u \in query_get(user_id) : TRUE
             IN outcome(users \ {user}, session,
                        redirect(url_for("auth.list_users"),
                            <<"Admin user '", user.username, "' deleted successfully">>)))

\* Variant of delete_user that uses first() where the code uses get_or_404:
\* a missing target is answered like a refused request.
delete_user_missing_redirects(c, user_id) ==
    login_required(c,
        IF ~current_user(c).is_admin
        THEN outcome(users, session, redirect(url_for("main.index"), <<"Access denied">>))
        ELSE IF user_id = current_user(c).id
        THEN outcome(users, session,
                     redirect(url_for("auth.list_users"), <<"You cannot delete yourself">>))
        ELSE IF query_get(user_id) = {}
        THEN outcome(users, session,
                     redirect(url_for("auth.list_users"), <<"User not found">>))
        ELSE LET user == CHOOSE u \in query_get(user_id) : TRUE
             IN outcome(users \ {user}, session,
                        redirect(url_for("auth.list_users"),
                            <<"Admin user '", user.username, "' deleted successfully">>)))

\* /admin/users/<user_id>/delete
delete_user(c, user_id) ==
    login_required(c,
        IF ~current_user(c).is_admin
        THEN outcome(users, session, redirect(url_for("main.index"), <<"Access denied">>))
        ELSE IF user_id = current_user(c).id
        THEN outcome(users, session,
                     redirect(url_for("auth.list_users"), <<"You cannot delete yourself">>))
        ELSE IF query_get(user_id) = {}
        THEN outcome(users, session, not_found)
        ELSE LET user == CHOOSE u \in query_get(user_id) : TRUE
             IN outcome(users \ {user}, session,
                        redirect(url_for("auth.list_users"),
                            <<"Admin user '", user.username, "' deleted successfully">>)))

\* Variant of reset_row that leaves password_must_change as it is.
reset_row_keeps_flag(user, new_password) == set_password(user, new_password)

\* Variant of reset_row that clears password_must_change.
reset_row_clears_flag(user, new_password) ==
    [set_password(user, new_password) EXCEPT !.password_must_change = FALSE]

\* reset_user_password: the target row after set_password(new_password) and
\* password_must_change = True
reset_row(user, new_password) ==
    [set_password(user, new_password) EXCEPT !.password_must_change = TRUE]

\* /admin/users/<user_id>/reset-password
reset_user_password(c, user_id, new_password) ==
    login_required(c,
        IF ~current_user(c).is_admin
        THEN outcome(users, session, redirect(url_for("main.index"), <<"Access denied">>))
        ELSE IF new_password = <<>>
        THEN outcome(users, session,
                     redirect(url_for("auth.list_users"), <<"New password is required">>))
        ELSE LET v == validate_password(new_password, <<>>)
             IN IF ~v.ok
                THEN outcome(users, session, redirect(url_for("auth.list_users"), <<v.msg>>))
                ELSE IF query_get(user_id) = {}
                THEN outcome(users, session, not_found)
                ELSE LET user == CHOOSE u \in query_get(user_id) : TRUE
                     IN outcome(
                            update_user(user, reset_row(user, new_password)),
                            session,
                            redirect(url_for("auth.list_users"),
                                <<"Password reset for '", user.username,
                                  "'. They must change it on next login.">>)))

\* Variant of create_default_admin whose account need not change its
\* password.
create_default_admin_no_flag ==
    IF ~tableExists THEN users
    ELSE IF filter_by_username("admin") = {}
    THEN add_user(users, User("admin", AdminPw, TRUE, FALSE))
    ELSE users

\* create_default_admin of app/__init__.py: the table after it has run
create_default_admin ==
    IF ~tableExists THEN users                      \* the query raises: except ... pass
    ELSE IF filter_by_username("admin") = {}
    THEN add_user(users, User("admin", AdminPw, TRUE, TRUE))
    ELSE users

(***************************************************************************)
(* Initial states: the table as the tests' fixtures seed it                *)
(***************************************************************************)
\* conftest.admin_user
admin_user == User("testadmin", AdminPw, TRUE, FALSE)

\* conftest.regular_user
regular_user == User("regularuser", RegularPw, FALSE, FALSE)

RECURSIVE seed(_)
\* the table after the fixtures of the sequence have run in order
seed(fixtures) ==
    IF fixtures = <<>> THEN {}
    ELSE add_user(seed(SubSeq(fixtures, 1, Len(fixtures) - 1)), fixtures[Len(fixtures)])

SeedTables ==
    {t \in {seed(<<>>), seed(<<admin_user>>), seed(<<regular_user>>),
            seed(<<admin_user, regular_user>>)} :
        \A u \in t : u.id \in Ids}

NoResponse ==
    [op |-> "none", status |-> 0, template |-> "", location |-> NoLocation, flash |-> <<>>]

\* no create_user request in flight
NoRequest == [username |-> "", password |-> <<>>]

\* no delete_user request in flight
NoDelete == [id |-> 0, username |-> ""]

\* no call of validate_password under observation
NotValidating ==
    [candidate |-> <<>>, previous |-> <<>>, done |-> FALSE, result |-> [ok |-> FALSE, msg |-> ""]]

Init ==
    /\ tableExists \in BOOLEAN
    /\ users \in (IF tableExists THEN SeedTables ELSE {{}})
    /\ session = [c \in Clients |-> 0]
    /\ resp = NoResponse
    /\ pending = [c \in Clients |-> NoRequest]
    /\ bootPending = FALSE
    /\ validation = NotValidating
    /\ deleting = [c \in Clients |-> NoDelete]
    /\ floorplan = {}
    /\ resource = {}

(***************************************************************************)
(* Actions: one per request or start-up step                               *)
(***************************************************************************)
\* the response of a request to endpoint op as the state records it
recorded(op, r) ==
    [op |-> op, status |-> r.status, template |-> r.template,
     location |-> r.location, flash |-> r.flash]

\* the state after a request to endpoint op with outcome out; a request that
\* would need a primary key beyond MaxId is left out of the model
respond(op, out) ==
    /\ \A u \in out.users : u.id \in Ids
    /\ users' = out.users
    /\ session' = out.session
    /\ resp' = recorded(op, out.resp)
    /\ UNCHANGED <<tableExists, inFlight, validation, catalog>>

\* db.create_all() / the migrations create the table
CreateAll ==
    /\ ~tableExists
    /\ tableExists' = TRUE
    /\ resp' = [NoResponse EXCEPT !.op = "create_all"]
    /\ UNCHANGED <<users, session, inFlight, validation, catalog>>

\* run.py: the application starts and calls create_default_admin()
Run ==
    /\ \A u \in create_default_admin : u.id \in Ids
    /\ users' = create_default_admin
    /\ resp' = [NoResponse EXCEPT !.op = "run"]
    /\ UNCHANGED <<tableExists, session, inFlight, validation, catalog>>

\* GET /login carries no form
LoginGet(c) == respond("auth.login", login(c, "GET", "", <<>>, <<>>))

LoginPost(c, username, password, next_arg) ==
    respond("auth.login", login(c, "POST", username, password, next_arg))

Logout(c) == respond("auth.logout", logout(c))

\* GET /change-password carries no form
ChangePasswordGet(c) ==
    respond("auth.change_password", change_password(c, "GET", <<>>, <<>>, <<>>))

ChangePasswordPost(c, current_password, new_password, confirm_password) ==
    respond("auth.change_password",
            change_password(c, "POST", current_password, new_password, confirm_password))

ListUsers(c) == respond("auth.list_users", list_users(c))

CreateUser(c, username, password) ==
    respond("auth.create_user", create_user(c, username, password))

DeleteUser(c, user_id) == respond("auth.delete_user", delete_user(c, user_id))

ResetUserPassword(c, user_id, new_password) ==
    respond("auth.reset_user_password", reset_user_password(c, user_id, new_password))

\* The values a request of client c takes from the set S. login answers a
\* client with a session before it reads the request, and @login_required
\* answers a client without one before the handler runs: such a request has
\* the same outcome whatever it carries, and one value (the first argument)
\* stands for all of S.
anonymous_sends(c, none, S) == IF is_authenticated(c) THEN {none} ELSE S

authenticated_sends(c, none, S) == IF is_authenticated(c) THEN S ELSE {none}

Next ==
    \/ CreateAll
    \/ Run
    \/ \E c \in Clients : LoginGet(c)
    \/ \E c \in Clients :
          \E u \in anonymous_sends(c, "", Usernames),
             p \in anonymous_sends(c, <<>>, LoginPasswords),
             n \in anonymous_sends(c, <<>>, LoginNextArgs) :
              LoginPost(c, u, p, n)
    \/ \E c \in Clients : Logout(c)
    \/ \E c \in Clients : ChangePasswordGet(c)
    \/ \E c \in Clients :
          \E p \in authenticated_sends(c, <<>>, CurrentPasswords),
             q \in authenticated_sends(c, <<>>, Passwords) :
              \* the confirmation repeats the new password or is another one
              \E r \in {q, NewPw} : ChangePasswordPost(c, p, q, r)
    \/ \E c \in Clients : ListUsers(c)
    \/ \E c \in Clients :
          \E u \in authenticated_sends(c, "", Usernames),
             p \in authenticated_sends(c, <<>>, Passwords) :
              CreateUser(c, u, p)
    \/ \E c \in Clients : \E i \in authenticated_sends(c, 1, Ids) : DeleteUser(c, i)
    \/ \E c \in Clients :
          \E i \in authenticated_sends(c, 1, Ids),
             p \in authenticated_sends(c, <<>>, Passwords) :
              ResetUserPassword(c, i, p)

Spec == Init /\ [][Next]_vars

(***************************************************************************)
(* Interleaved requests: app.run serves each request in a thread of its    *)
(* own, and a second process may start on the same database. A create_user *)
(* request and create_default_admin read the table, and write it in a      *)
(* later step; the steps of other requests may come in between.            *)
(***************************************************************************)
\* The UNIQUE constraint of models.User.username: the store refuses the
\* INSERT of a row whose username a row of the table has (IntegrityError).
IntegrityError(rows, user) == \E r \in rows : r.username = user.username

\* Variant of commit_insert for a username column without the constraint.
commit_insert_unconstrained(rows, user) == add_user(rows, user)

\* db.session.add(user); db.session.commit(): the table after the INSERT,
\* which is the table before it when the store refuses the row
commit_insert(rows, user) ==
    IF IntegrityError(rows, user) THEN rows ELSE add_user(rows, user)

\* primary keys of the interleaved model: one more than Ids, so that the
\* table has room for the row of a second writer after the first has written
RaceIds == 1..(MaxId + 1)

\* passwords of the create_user requests that may interleave
RacePasswords == {WeakPw, NewPw}

\* create_user, lines 191-210: a request that fails a check is answered at
\* once; a request that passes them all is in flight, its row not yet written
CreateUserBegin(c, username, password) ==
    /\ pending[c] = NoRequest
    /\ IF create_user(c, username, password).users # users
       THEN /\ pending' = [pending EXCEPT ![c] = [username |-> username, password |-> password]]
            /\ UNCHANGED <<tableExists, users, session, resp, bootPending, validation, deleting, catalog>>
       ELSE respond("auth.create_user", create_user(c, username, password))

\* create_user, lines 212-218, of a request in flight: the INSERT, and the
\* answer; an IntegrityError leaves the handler (no except clause, no
\* errorhandler) and the request ends with status 500
CreateUserCommit(c) ==
    /\ pending[c] # NoRequest
    /\ \A u \in commit_insert(users, new_admin(pending[c].username, pending[c].password)) :
           u.id \in RaceIds
    /\ users' = commit_insert(users, new_admin(pending[c].username, pending[c].password))
    /\ resp' = recorded("auth.create_user",
                   IF IntegrityError(users, new_admin(pending[c].username, pending[c].password))
                   THEN server_error
                   ELSE redirect(url_for("auth.list_users"),
                            <<"Admin user '", pending[c].username, "' created successfully">>))
    /\ pending' = [pending EXCEPT ![c] = NoRequest]
    /\ UNCHANGED <<tableExists, session, bootPending, validation, deleting, catalog>>

\* the account create_default_admin builds
default_admin == User("admin", AdminPw, TRUE, TRUE)

\* create_default_admin, line 74: the query for an "admin" row (the
\* exception of a missing table is swallowed)
RunCheck ==
    /\ ~bootPending
    /\ bootPending' = (tableExists /\ filter_by_username("admin") = {})
    /\ resp' = [NoResponse EXCEPT !.op = "run"]
    /\ UNCHANGED <<tableExists, users, session, pending, validation, deleting, catalog>>

\* create_default_admin, lines 75-82: the INSERT; an IntegrityError is
\* swallowed by except Exception: pass
RunCommit ==
    /\ bootPending
    /\ \A u \in commit_insert(users, default_admin) : u.id \in RaceIds
    /\ users' = commit_insert(users, default_admin)
    /\ bootPending' = FALSE
    /\ resp' = [NoResponse EXCEPT !.op = "run"]
    /\ UNCHANGED <<tableExists, session, pending, validation, deleting, catalog>>

RaceNext ==
    \/ CreateAll
    \/ RunCheck
    \/ RunCommit
    \/ \E c \in Clients :
          \E u \in anonymous_sends(c, "", Usernames),
             p \in anonymous_sends(c, <<>>, LoginPasswords) :
              LoginPost(c, u, p, <<>>)
    \/ \E c \in Clients :
          \E u \in authenticated_sends(c, "", Usernames),
             p \in authenticated_sends(c, <<>>, RacePasswords) :
              CreateUserBegin(c, u, p)
    \/ \E c \in Clients : CreateUserCommit(c)

SpecRace == Init /\ [][RaceNext]_vars

(***************************************************************************)
(* Interleaved delete_user requests: a request reads the caller's row and  *)
(* the target's row, and deletes the target in a later step                *)
(***************************************************************************)
\* delete_user, lines 225-234: a request that is turned away, refused or
\* answered 404 is answered at once; a request that has found its target is
\* in flight, with the id and the username it has read
DeleteUserBegin(c, user_id) ==
    /\ deleting[c] = NoDelete
    /\ IF delete_user(c, user_id).users # users
       THEN /\ deleting' = [deleting EXCEPT ![c] =
                    [id |-> user_id,
                     username |-> (CHOOSE u \in query_get(user_id) : TRUE).username]]
            /\ UNCHANGED <<tableExists, users, session, resp, pending, bootPending, validation, catalog>>
       ELSE respond("auth.delete_user", delete_user(c, user_id))

\* delete_user, lines 235-239, of a request in flight: DELETE ... WHERE id =
\* the target's id (no row is left to delete when another request has
\* deleted the target in between), and the answer
DeleteUserCommit(c) ==
    /\ deleting[c] # NoDelete
    /\ users' = users \ query_get(deleting[c].id)
    /\ resp' = recorded("auth.delete_user",
                   redirect(url_for("auth.list_users"),
                       <<"Admin user '", deleting[c].username, "' deleted successfully">>))
    /\ deleting' = [deleting EXCEPT ![c] = NoDelete]
    /\ UNCHANGED <<tableExists, session, pending, bootPending, validation, catalog>>

DeleteRaceNext ==
    \/ CreateAll
    \/ Run
    \/ \E c \in Clients :
          \E u \in anonymous_sends(c, "", Usernames),
             p \in anonymous_sends(c, <<>>, LoginPasswords) :
              LoginPost(c, u, p, <<>>)
    \/ \E c \in Clients : \E i \in authenticated_sends(c, 1, Ids) : DeleteUserBegin(c, i)
    \/ \E c \in Clients : DeleteUserCommit(c)

SpecDeleteRace == Init /\ [][DeleteRaceNext]_vars

(***************************************************************************)
(* validate_password on its own: the arguments are drawn at the start, one *)
(* step calls the function and keeps its result                            *)
(***************************************************************************)
\* longest candidate password
MaxLen == 11

\* the character classes the policy asks for, in the order of its rules
RuleClasses == <<UpperChars, LowerChars, DigitChars, SpecialChars>>

\* one character of each class and one that is in none of them
PasswordAlphabet == {"A", "b", "7", "?", "_"}

\* the candidate of length n that repeats the pattern pat
repeated(pat, n) == [i \in 1..n |-> pat[((i - 1) % Len(pat)) + 1]]

\* candidate passwords: every pattern of as many characters as there are
\* classes, repeated to every length up to MaxLen
Candidates ==
    {repeated(pat, n) : pat \in [1..Len(RuleClasses) -> PasswordAlphabet], n \in 0..MaxLen}

\* current_password arguments for a candidate: None, the candidate itself,
\* and two passwords that differ from it
Previous(candidate) == {<<>>, candidate, Append(candidate, "x"), NewPw}

InitValidate ==
    /\ tableExists = FALSE
    /\ users = {}
    /\ session = [c \in Clients |-> 0]
    /\ resp = NoResponse
    /\ pending = [c \in Clients |-> NoRequest]
    /\ bootPending = FALSE
    /\ deleting = [c \in Clients |-> NoDelete]
    /\ floorplan = {}
    /\ resource = {}
    /\ \E candidate \in Candidates :
           \E previous \in Previous(candidate) :
               validation = [NotValidating EXCEPT !.candidate = candidate,
                                                  !.previous = previous]

\* validate_password(candidate, previous)
Validate ==
    /\ ~validation.done
    /\ validation' = [validation EXCEPT
                          !.done = TRUE,
                          !.result = validate_password(validation.candidate,
                                                       validation.previous)]
    /\ UNCHANGED <<tableExists, users, session, resp, inFlight, catalog>>

ValidateNext == Validate

SpecValidate == InitValidate /\ [][ValidateNext]_vars

(***************************************************************************)
(* The catalog of routes.py: floorplans and resources. Requests carry a    *)
(* valid CSRF token; created_at and the image files on disk are left out.  *)
(***************************************************************************)
\* Python's None, SQL NULL and JSON null
None == "None"

\* most rows of the floorplan table and of the resource table
MaxFloorplans == 1

MaxResources == 1

\* dict.get(key, default) on the JSON object of a request (a function from
\* the keys it carries to their values)
dict_get(data, key, default) == IF key \in DOMAIN data THEN data[key] ELSE default

\* a response made by jsonify(body), status
jsonify(body, status) ==
    [status |-> status, template |-> "", location |-> NoLocation, flash |-> <<>>,
     json |-> body]

\* a response of auth_routes.py as a response of the API (it has no JSON body)
with_json(r, body) ==
    [status |-> r.status, template |-> r.template, location |-> r.location,
     flash |-> r.flash, json |-> body]

\* what a handler of routes.py leaves behind: the two tables and the response
catalog_outcome(plans, items, response) ==
    [floorplan |-> plans, resource |-> items, resp |-> response]

\* Variant of api_login_required that lets every request through.
api_login_not_required(c, out) == out

\* @login_required on a handler of routes.py
api_login_required(c, out) ==
    IF is_authenticated(c) THEN out
    ELSE catalog_outcome(floorplan, resource, with_json(unauthorized, None))

\* the key a new row of an INTEGER PRIMARY KEY table gets
next_key(rows) ==
    IF rows = {} THEN 1
    ELSE (CHOOSE i \in {r.id : r \in rows} : \A r \in rows : r.id <= i) + 1

(***************************************************************************)
(* Uploaded file names: allowed_file, secure_filename, the time stamp      *)
(***************************************************************************)
ALLOWED_EXTENSIONS == {<<"p","n","g">>, <<"j","p","g">>, <<"j","p","e","g">>, <<"g","i","f">>}

\* filename.rsplit(".", 1)[1].lower()
extension(filename) ==
    LET dots == {i \in DOMAIN filename : filename[i] = "."}
        last == CHOOSE i \in dots : \A j \in dots : j <= i
    IN [k \in 1..(Len(filename) - last) |-> lower(filename[last + k])]

allowed_file(filename) ==
    /\ \E i \in DOMAIN filename : filename[i] = "."
    /\ extension(filename) \in ALLOWED_EXTENSIONS

\* the characters werkzeug's secure_filename keeps
FilenameChars == UpperChars \cup LowerChars \cup DigitChars \cup {"_", ".", "-"}

RECURSIVE words(_)
\* str.split(): the words of s between runs of blanks
words(s) ==
    IF s = <<>> THEN <<>>
    ELSE IF s[1] = " " THEN words(Tail(s))
    ELSE LET blanks == {i \in DOMAIN s : s[i] = " "}
             end == IF blanks = {} THEN Len(s) + 1
                    ELSE CHOOSE i \in blanks : \A j \in blanks : i <= j
         IN <<SubSeq(s, 1, end - 1)>> \o words(SubSeq(s, end, Len(s)))

RECURSIVE join(_, _)
\* sep.join(parts)
join(sep, parts) ==
    IF parts = <<>> THEN <<>>
    ELSE IF Len(parts) = 1 THEN parts[1]
    ELSE parts[1] \o sep \o join(sep, Tail(parts))

RECURSIVE strip(_, _)
\* str.strip(chars)
strip(s, chars) ==
    IF s = <<>> THEN s
    ELSE IF s[1] \in chars THEN strip(Tail(s), chars)
    ELSE IF s[Len(s)] \in chars THEN strip(SubSeq(s, 1, Len(s) - 1), chars)
    ELSE s

\* werkzeug.utils.secure_filename on ASCII names: path separators become
\* blanks, runs of blanks become one "_", other characters outside
\* FilenameChars are dropped, dots and underscores at the ends are stripped
secure_filename(filename) ==
    LET spaced == [i \in DOMAIN filename |-> IF filename[i] = "/" THEN " " ELSE filename[i]]
        joined == join(<<"_">>, words(spaced))
    IN strip(SelectSeq(joined, LAMBDA ch : ch \in FilenameChars), {".", "_"})

DigitSeq == <<"0","1","2","3","4","5","6","7","8","9">>

RECURSIVE str(_)
\* str(n) for n >= 0
str(n) == IF n < 10 THEN <<DigitSeq[n + 1]>> ELSE str(n \div 10) \o <<DigitSeq[(n % 10) + 1]>>

\* f"{int(time.time())}_{filename}"
stamped(now, filename) == str(now) \o <<"_">> \o filename

(***************************************************************************)
(* Floorplans: /api/floorplans and /api/floorplans/<id>                    *)
(***************************************************************************)
\* a handler that reaches the database fails when the tables are missing
db_access(out) ==
    IF tableExists THEN out
    ELSE catalog_outcome(floorplan, resource, with_json(server_error, None))

RECURSIVE by_id(_)
\* Model.query.all(): the rows in the order of their keys
by_id(rows) ==
    IF rows = {} THEN <<>>
    ELSE LET first == CHOOSE r \in rows : \A q \in rows : r.id <= q.id
         IN <<first>> \o by_id(rows \ {first})

\* jsonify({"error": message}), status
api_error(message, status) == jsonify([error |-> message], status)

\* Floorplan.to_dict without created_at
floorplan_to_dict(f) == [id |-> f.id, name |-> f.name, image_filename |-> f.image_filename]

\* db.session.add(Floorplan(name=..., image_filename=...)); db.session.commit()
add_floorplan(name, image_filename) ==
    db_access(
        LET row == [id |-> next_key(floorplan), name |-> name,
                    image_filename |-> image_filename]
        IN catalog_outcome(floorplan \cup {row}, resource,
                           jsonify(floorplan_to_dict(row), 201)))

\* lines 107-142: a POST with a file part "image"; file is its filename and
\* whether PIL accepts its content, now the reading of the clock
upload_floorplan(file, form, now) ==
    IF dict_get(form, "name", None) \in {None, ""}
    THEN catalog_outcome(floorplan, resource, api_error("Floorplan name is required", 400))
    ELSE IF file.filename = <<>>
    THEN catalog_outcome(floorplan, resource, api_error("No file selected", 400))
    ELSE IF allowed_file(file.filename)
    THEN IF ~file.valid
         THEN catalog_outcome(floorplan, resource,
                  api_error("Invalid file content. File must be a valid image.", 400))
         ELSE add_floorplan(form["name"], stamped(now, secure_filename(file.filename)))
    ELSE catalog_outcome(floorplan, resource,
             api_error("Invalid file type. Allowed: png, jpg, jpeg, gif", 400))

\* lines 143-149: a POST with a JSON object; a row without name or
\* image_filename violates NOT NULL and the commit raises
create_floorplan(data) ==
    IF {"name", "image_filename"} \subseteq DOMAIN data
    THEN add_floorplan(dict_get(data, "name", None), dict_get(data, "image_filename", None))
    ELSE catalog_outcome(floorplan, resource, with_json(server_error, None))

floorplans(c, method, files, form, data, now) ==
    api_login_required(c,
        IF method = "POST"
        THEN IF "image" \in DOMAIN files
             THEN upload_floorplan(files["image"], form, now)
             ELSE create_floorplan(data)
        ELSE db_access(catalog_outcome(floorplan, resource,
                 jsonify([i \in 1..Cardinality(floorplan) |->
                              floorplan_to_dict(by_id(floorplan)[i])], 200))))

floorplan_detail(c, method, floorplan_id, data) ==
    api_login_required(c, db_access(
        IF \A f \in floorplan : f.id # floorplan_id
        THEN catalog_outcome(floorplan, resource, with_json(not_found, None))
        ELSE LET f == CHOOSE f \in floorplan : f.id = floorplan_id
                 row == [id |-> f.id,
                         name |-> dict_get(data, "name", f.name),
                         image_filename |-> dict_get(data, "image_filename",
                                                     f.image_filename)]
             IN
            IF method = "DELETE"
            THEN catalog_outcome(floorplan \ {f},
                                 {r \in resource : r.floorplan_id # f.id},
                                 jsonify("", 204))
            ELSE IF method = "PUT"
            THEN catalog_outcome((floorplan \ {f}) \cup {row}, resource,
                                 jsonify(floorplan_to_dict(row), 200))
            ELSE catalog_outcome(floorplan, resource, jsonify(floorplan_to_dict(f), 200))))

(***************************************************************************)
(* Resources: /api/resources and /api/resources/<id>                       *)
(***************************************************************************)
\* the NOT NULL columns of Resource besides id
BaseColumns == {"name", "type", "x_coordinate", "y_coordinate", "floorplan_id"}

RoomFields == {"room_number", "room_type", "capacity"}

PrinterFields == {"printer_name", "color_type", "printer_model"}

PersonFields == {"email", "title"}

BathroomFields == {"gender_type"}

\* the nullable columns of Resource
TypeFields == RoomFields \cup PrinterFields \cup PersonFields \cup BathroomFields

\* the types the handlers and to_dict know
ResourceTypes == {"room", "printer", "person", "bathroom"}

\* the columns a branch of the if/elif chains on the type reads from the request
own_fields(resource_type) ==
    CASE resource_type = "room" -> RoomFields
      [] resource_type = "printer" -> PrinterFields
      [] resource_type = "person" -> PersonFields
      [] resource_type = "bathroom" -> BathroomFields
      [] OTHER -> {}

\* Resource.to_dict without created_at
resource_to_dict(r) ==
    [k \in {"id"} \cup BaseColumns \cup own_fields(r.type) |-> r[k]]

\* lines 189-212: the row POST /api/resources builds from the JSON object
new_resource(data) ==
    [k \in {"id"} \cup BaseColumns \cup TypeFields |->
        IF k = "id" THEN next_key(resource)
        ELSE IF k \in BaseColumns \cup own_fields(dict_get(data, "type", None))
        THEN dict_get(data, k, None)
        ELSE None]

resources(c, method, data) ==
    api_login_required(c,
        IF method = "POST"
        THEN IF BaseColumns \subseteq DOMAIN data
             THEN db_access(catalog_outcome(floorplan, resource \cup {new_resource(data)},
                      jsonify(resource_to_dict(new_resource(data)), 201)))
             ELSE catalog_outcome(floorplan, resource, with_json(server_error, None))
        ELSE db_access(catalog_outcome(floorplan, resource,
                 jsonify([i \in 1..Cardinality(resource) |->
                              resource_to_dict(by_id(resource)[i])], 200))))

\* Variant of update_resource that leaves the columns of the other types alone.
update_resource_keeps_others(r, data) ==
    [k \in DOMAIN r |->
        IF k = "id" THEN r.id
        ELSE IF k \in BaseColumns \cup own_fields(dict_get(data, "type", r.type))
        THEN dict_get(data, k, r[k])
        ELSE r[k]]

\* lines 232-285: the row after PUT /api/resources/<id> with the JSON object
update_resource(r, data) ==
    [k \in DOMAIN r |->
        IF k = "id" THEN r.id
        ELSE IF k \in BaseColumns \cup own_fields(dict_get(data, "type", r.type))
        THEN dict_get(data, k, r[k])
        ELSE IF dict_get(data, "type", r.type) \in ResourceTypes
        THEN None
        ELSE r[k]]

resource_detail(c, method, resource_id, data) ==
    api_login_required(c, db_access(
        IF \A r \in resource : r.id # resource_id
        THEN catalog_outcome(floorplan, resource, with_json(not_found, None))
        ELSE LET r == CHOOSE r \in resource : r.id = resource_id
             IN
            IF method = "DELETE"
            THEN catalog_outcome(floorplan, resource \ {r}, jsonify("", 204))
            ELSE IF method = "PUT"
            THEN catalog_outcome(floorplan, (resource \ {r}) \cup {update_resource(r, data)},
                                 jsonify(resource_to_dict(update_resource(r, data)), 200))
            ELSE catalog_outcome(floorplan, resource, jsonify(resource_to_dict(r), 200))))

(***************************************************************************)
(* Search: /api/search                                                     *)
(***************************************************************************)
RECURSIVE like(_, _)
\* SQLite's case-insensitive LIKE: % matches any run of characters, _ any
\* single one
like(pattern, s) ==
    IF pattern = <<>> THEN s = <<>>
    ELSE IF pattern[1] = "%"
    THEN like(Tail(pattern), s) \/ (s # <<>> /\ like(pattern, Tail(s)))
    ELSE /\ s # <<>>
         /\ pattern[1] = "_" \/ lower(pattern[1]) = lower(s[1])
         /\ like(Tail(pattern), Tail(s))

\* Floorplan.query.get(id).to_dict(), None when there is no such row
floorplan_of(id) ==
    IF \A f \in floorplan : f.id # id THEN None
    ELSE floorplan_to_dict(CHOOSE f \in floorplan : f.id = id)

\* the handler carries no @login_required; q is request.args.get("q", "")
search(q) ==
    LET query == strip(q, {" "})
        found == by_id({r \in resource : like(<<"%">> \o query \o <<"%">>, r.name)})
    IN IF query = <<>>
       THEN catalog_outcome(floorplan, resource, api_error("Search query is required", 400))
       ELSE db_access(
           IF found = <<>>
           THEN catalog_outcome(floorplan, resource,
                    jsonify([error |-> <<"No resources matching \"", query, "\" found">>,
                             message |-> "Please try a different search term"], 404))
           ELSE catalog_outcome(floorplan, resource,
                    jsonify([count |-> Len(found),
                             results |-> [i \in DOMAIN found |->
                                 [resource |-> resource_to_dict(found[i]),
                                  floorplan |-> floorplan_of(found[i].floorplan_id)]]],
                            200)))

(***************************************************************************)
(* The catalog as a state machine: one browser, logged in as the           *)
(* administrator or not, sends requests to routes.py                       *)
(***************************************************************************)
\* "Lab"
LabName == <<"L","a","b">>

\* "my plan.PNG"
PlanPng == <<"m","y"," ","p","l","a","n",".","P","N","G">>

\* "../plan.svg"
PlanSvg == <<".",".","/","p","l","a","n",".","s","v","g">>

\* "f1.gif"
F1Gif == <<"f","1",".","g","i","f">>

\* names of uploaded files; <<>> is a file part without a file
Filenames == {<<>>, PlanPng, PlanSvg, <<"p","l","a","n">>}

\* the "name" field of the upload form, None when it is missing
FormNames == {None, "", "Floor 1"}

\* readings of int(time.time())
Timestamps == {12}

\* JSON objects of floorplan requests
FloorplanData ==
    {[k \in keys |-> IF k = "name" THEN "Floor 1" ELSE F1Gif] :
        keys \in SUBSET {"name", "image_filename"}}

\* sets of keys of the JSON objects of resource requests: the empty object,
\* and the columns every resource has with the fields of no type, of one
\* type or of all types
ResourceKeys ==
    {{}} \cup {(BaseColumns \ {"type"}) \cup fields : fields \in {{}, RoomFields, TypeFields}}

\* values of the "type" key; "absent" is an object without the key
TypeValues == ResourceTypes \cup {"desk", "absent"}

\* JSON objects of resource requests
ResourceData ==
    {[k \in keys \cup (IF type = "absent" THEN {} ELSE {"type"}) |->
        CASE k = "name" -> LabName
          [] k = "type" -> type
          [] k = "x_coordinate" -> 3
          [] k = "y_coordinate" -> 4
          [] k = "floorplan_id" -> 1
          [] OTHER -> "v"] :
        keys \in ResourceKeys, type \in TypeValues}

\* values of the q parameter of a search
Queries == {<<>>, <<" ">>, <<" ","l","A"," ">>, <<"_","b">>, <<"z">>}

\* the response of a request to a handler of routes.py as the state records
\* it, with the method of the request
api_recorded(op, method, r) ==
    [op |-> op, method |-> method, status |-> r.status, template |-> r.template,
     location |-> r.location, flash |-> r.flash, json |-> r.json]

\* the state after a request to routes.py with outcome out; a request that
\* would need a key beyond the bounds is left out of the model
catalog_respond(op, method, out) ==
    /\ \A f \in out.floorplan : f.id \in 1..MaxFloorplans
    /\ \A r \in out.resource : r.id \in 1..MaxResources
    /\ floorplan' = out.floorplan
    /\ resource' = out.resource
    /\ resp' = api_recorded(op, method, out.resp)
    /\ UNCHANGED <<tableExists, users, session, inFlight, validation>>

NoFiles == <<>>

FloorplansGet(c) ==
    catalog_respond("main.floorplans", "GET", floorplans(c, "GET", NoFiles, <<>>, <<>>, 0))

FloorplansUpload(c, name, filename, valid, now) ==
    catalog_respond("main.floorplans", "POST",
        floorplans(c, "POST", [image |-> [filename |-> filename, valid |-> valid]],
                   IF name = None THEN <<>> ELSE [name |-> name], <<>>, now))

FloorplansPost(c, data) ==
    catalog_respond("main.floorplans", "POST", floorplans(c, "POST", NoFiles, <<>>, data, 0))

FloorplanGet(c, floorplan_id) ==
    catalog_respond("main.floorplan_detail", "GET", floorplan_detail(c, "GET", floorplan_id, <<>>))

FloorplanPut(c, floorplan_id, data) ==
    catalog_respond("main.floorplan_detail", "PUT", floorplan_detail(c, "PUT", floorplan_id, data))

FloorplanDelete(c, floorplan_id) ==
    catalog_respond("main.floorplan_detail", "DELETE", floorplan_detail(c, "DELETE", floorplan_id, <<>>))

ResourcesGet(c) == catalog_respond("main.resources", "GET", resources(c, "GET", <<>>))

ResourcesPost(c, data) == catalog_respond("main.resources", "POST", resources(c, "POST", data))

ResourceGet(c, resource_id) ==
    catalog_respond("main.resource_detail", "GET", resource_detail(c, "GET", resource_id, <<>>))

ResourcePut(c, resource_id, data) ==
    catalog_respond("main.resource_detail", "PUT", resource_detail(c, "PUT", resource_id, data))

ResourceDelete(c, resource_id) ==
    catalog_respond("main.resource_detail", "DELETE", resource_detail(c, "DELETE", resource_id, <<>>))

Search(q) == catalog_respond("main.search", "GET", search(q))

\* keys of the URLs of the detail handlers: every key in use and one beyond
FloorplanIds == 1..(MaxFloorplans + 1)

\* the browser of the catalog requests
Browser == "c1"

ResourceIds == 1..(MaxResources + 1)

\* the database of conftest.py with the admin_user fixture
InitCatalog ==
    /\ tableExists = TRUE
    /\ users = seed(<<admin_user>>)
    /\ session = [c \in Clients |-> 0]
    /\ resp = NoResponse
    /\ pending = [c \in Clients |-> NoRequest]
    /\ bootPending = FALSE
    /\ validation = NotValidating
    /\ deleting = [c \in Clients |-> NoDelete]
    /\ floorplan = {}
    /\ resource = {}

CatalogNext ==
    \/ LoginPost(Browser, "testadmin", AdminPw, <<>>)
    \/ Logout(Browser)
    \/ FloorplansGet(Browser)
    \/ \E name \in FormNames, filename \in Filenames, valid \in BOOLEAN,
          now \in Timestamps :
          FloorplansUpload(Browser, name, filename, valid, now)
    \/ \E data \in FloorplanData : FloorplansPost(Browser, data)
    \/ \E id \in FloorplanIds : FloorplanGet(Browser, id)
    \/ \E id \in FloorplanIds, data \in FloorplanData : FloorplanPut(Browser, id, data)
    \/ \E id \in FloorplanIds : FloorplanDelete(Browser, id)
    \/ ResourcesGet(Browser)
    \/ \E data \in ResourceData : ResourcesPost(Browser, data)
    \/ \E id \in ResourceIds : ResourceGet(Browser, id)
    \/ \E id \in ResourceIds, data \in ResourceData : ResourcePut(Browser, id, data)
    \/ \E id \in ResourceIds : ResourceDelete(Browser, id)
    \/ \E q \in Queries : Search(q)

SpecCatalog == InitCatalog /\ [][CatalogNext]_vars

(***************************************************************************)
(* Properties                                                              *)
(*                                                                         *)
(* A property of a handler is stated over its outcome in every reachable   *)
(* state and for every input of the request: the outcome operators above   *)
(* are the ones the actions apply.                                         *)
(***************************************************************************)
\* every password value of the model
AllPasswords == Passwords \cup LoginPasswords

AccessDeniedNotAdmin ==
    render_template("login.html", <<"Access denied. Admin privileges required.">>)

\* C1: for every account with is_admin = false, a login POST of a client without
\* a session that carries the account's username and its correct password is
\* answered with 'Access denied. Admin privileges required.' and binds no
\* account to the client: the table and every cookie stay as they were.
C1_NonAdminLoginDenied ==
    \A c \in Clients : ~is_authenticated(c) =>
        \A u \in users : ~u.is_admin =>
            \A p \in AllPasswords : check_password(u, p) =>
                \A n \in NextArgs :
                    LET o == login(c, "POST", u.username, p, n)
                    IN /\ o.resp = AccessDeniedNotAdmin
                       /\ o.session = session
                       /\ o.users = users

\* C1 witness: a login has just been denied for lack of admin rights, the
\* table holds a non-admin account and no client has a session.
C1_Witness ==
    /\ resp = recorded("auth.login", AccessDeniedNotAdmin)
    /\ \E u \in users : ~u.is_admin
    /\ \A c \in Clients : ~is_authenticated(c)

\* C2 (as claimed): while the account bound to a session has
\* password_must_change = true, no create_user, delete_user or
\* reset_user_password request of that session changes the table.
C2_MustChangeBlocksPrivileged ==
    \A c \in Clients :
        (is_authenticated(c) /\ current_user(c).password_must_change) =>
            /\ \A u \in Usernames, p \in Passwords : create_user(c, u, p).users = users
            /\ \A i \in Ids : delete_user(c, i).users = users
            /\ \A i \in Ids, p \in Passwords : reset_user_password(c, i, p).users = users

NoAdmins(rows) == \A u \in rows : ~u.is_admin

\* C3 (as claimed): a start-up run of create_default_admin on an existing table
\* adds an account if and only if the table holds no account with
\* is_admin = true.
C3_BootstrapIffNoAdmin ==
    [][(resp'.op = "run" /\ tableExists) => ((users' # users) <=> NoAdmins(users))]_vars

\* the default admin account as the first row of the table
DefaultAdminRow ==
    [id |-> 1, username |-> "admin", password_hash |-> generate_password_hash(AdminPw),
     is_admin |-> TRUE, password_must_change |-> TRUE]

\* C4: create_default_admin on an existing, empty table creates exactly one
\* account, with is_admin = true and password_must_change = true; and in every
\* state that a start-up run has just produced, a further run changes nothing.
C4_BootstrapIdempotent ==
    /\ (tableExists /\ users = {}) =>
           /\ Cardinality(create_default_admin) = 1
           /\ \A u \in create_default_admin : u.is_admin /\ u.password_must_change
    /\ resp.op = "run" => create_default_admin = users

\* C4 witness: a start-up run has just created the default admin in an empty
\* table.
C4_Witness ==
    /\ resp.op = "run"
    /\ users = {DefaultAdminRow}

MustChangeRedirect ==
    redirect(url_for("auth.change_password"),
             <<"You must change your password before continuing">>)

\* C5: for every admin account with password_must_change = true and every next
\* argument (absent, safe or unsafe), a login POST of a client without a
\* session with the account's correct credentials binds the session to the
\* account and redirects to the change-password page.
C5_MustChangeLoginRedirect ==
    \A c \in Clients : ~is_authenticated(c) =>
        \A u \in users : (u.is_admin /\ u.password_must_change) =>
            \A p \in AllPasswords : check_password(u, p) =>
                \A n \in NextArgs :
                    LET o == login(c, "POST", u.username, p, n)
                    IN /\ o.resp = MustChangeRedirect
                       /\ o.session = [session EXCEPT ![c] = u.id]
                       /\ o.users = users

\* C5 witness: a login has just been redirected to the change-password page
\* and a session is bound to an account that must change its password.
C5_Witness ==
    /\ resp = recorded("auth.login", MustChangeRedirect)
    /\ \E c \in Clients : is_authenticated(c) /\ current_user(c).password_must_change

\* a client with a session of an account with is_admin = true
is_admin_session(c) == is_authenticated(c) /\ current_user(c).is_admin

PasswordChanged == redirect(url_for("main.admin"), <<"Password changed successfully">>)

\* C6: after every successful change_password of a session's account, that
\* account has password_must_change = false, the new password authenticates
\* it and the password that authenticated it before no longer does; and a
\* change_password request that does not succeed leaves the table as it was.
\* The confirmation is the new password or, for a mismatch, another value.
C6_ChangePasswordRotates ==
    \A c \in Clients : is_authenticated(c) =>
        \A cur \in AllPasswords, new \in AllPasswords : \A conf \in {new, NewPw} :
            LET me == current_user(c)
                o == change_password(c, "POST", cur, new, conf)
                after == {a \in o.users : a.id = me.id}
            IN /\ o.users # users => o.resp = PasswordChanged
               /\ o.resp = PasswordChanged =>
                      /\ Cardinality(after) = 1
                      /\ \A a \in after :
                             /\ ~a.password_must_change
                             /\ check_password(a, new)
                             /\ \A old \in AllPasswords :
                                    check_password(me, old) => ~check_password(a, old)

\* C6 witness: a change of password has just succeeded for an account that a
\* session is bound to, and the account need not change its password.
C6_Witness ==
    /\ resp = recorded("auth.change_password", PasswordChanged)
    /\ \E c \in Clients : is_authenticated(c) /\ ~current_user(c).password_must_change
                          /\ check_password(current_user(c), NewPw)

AlreadyExists(username) ==
    redirect(url_for("auth.list_users"), <<"User '", username, "' already exists">>)

\* C7 (as claimed): create_user of an admin session with a username that
\* already exists leaves the table as it is and reports 'already exists', and
\* create_user with a password that fails validate_password adds no account
\* and reports the reason validate_password gives.
C7_AsClaimed ==
    \A c \in Clients : is_admin_session(c) =>
        \A u \in Usernames, p \in AllPasswords :
            LET o == create_user(c, u, p)
                v == validate_password(p, <<>>)
            IN /\ filter_by_username(u) # {} =>
                      o.users = users /\ o.resp = AlreadyExists(u)
               /\ ~v.ok =>
                      /\ o.users = users
                      /\ o.resp = redirect(url_for("auth.list_users"), <<v.msg>>)

\* C7 (amended): create_user of an admin session that gives a username and a
\* password leaves the table and the cookies as they are and reports 'already
\* exists' when the username exists, whatever the password; create_user with
\* a password that fails validate_password adds no account, and reports the
\* reason validate_password gives when the username is given and new (the
\* required-fields check and the duplicate check come first).
C7_CreateUserRejects ==
    \A c \in Clients : is_admin_session(c) =>
        \A u \in Usernames, p \in AllPasswords :
            LET o == create_user(c, u, p)
                v == validate_password(p, <<>>)
            IN /\ (u # "" /\ p # <<>> /\ filter_by_username(u) # {}) =>
                      o = outcome(users, session, AlreadyExists(u))
               /\ ~v.ok => o.users = users
               /\ (u # "" /\ p # <<>> /\ filter_by_username(u) = {} /\ ~v.ok) =>
                      o = outcome(users, session,
                                  redirect(url_for("auth.list_users"), <<v.msg>>))

\* C7 witness: a create_user request has just been rejected because its
\* username is taken.
C7_Witness ==
    \E u \in users : resp = recorded("auth.create_user", AlreadyExists(u.username))

Created(username) ==
    redirect(url_for("auth.list_users"), <<"Admin user '", username, "' created successfully">>)

\* C8: create_user of an admin session succeeds exactly when the username is
\* given and new and the password passes validate_password; it then adds
\* exactly one account, with a new id, the submitted username, is_admin = true
\* and password_must_change = true, which the submitted password
\* authenticates, and changes no other account; otherwise it adds nothing.
C8_CreateUserAddsAdmin ==
    \A c \in Clients : is_admin_session(c) =>
        \A u \in Usernames, p \in AllPasswords :
            LET o == create_user(c, u, p)
                added == o.users \ users
                fresh == u # "" /\ p # <<>> /\ filter_by_username(u) = {}
                             /\ validate_password(p, <<>>).ok
            IN /\ fresh <=> o.resp = Created(u)
               /\ ~fresh => o.users = users
               /\ fresh =>
                      /\ users \subseteq o.users
                      /\ Cardinality(added) = 1
                      /\ \A a \in added :
                             /\ \A x \in users : x.id # a.id
                             /\ a.username = u
                             /\ a.is_admin
                             /\ a.password_must_change
                             /\ check_password(a, p)

\* C8 witness: a create_user request has just added the account it names.
C8_Witness ==
    \E a \in users :
        /\ resp = recorded("auth.create_user", Created(a.username))
        /\ a.is_admin /\ a.password_must_change

CannotDeleteYourself ==
    redirect(url_for("auth.list_users"), <<"You cannot delete yourself">>)

Deleted(username) ==
    redirect(url_for("auth.list_users"), <<"Admin user '", username, "' deleted successfully">>)

\* C9: delete_user of an admin session on the caller's own id fails with 'You
\* cannot delete yourself' and leaves the table and the cookies as they are;
\* on any other existing account it removes exactly that row, after which no
\* row has its id or its username.
C9_DeleteUser ==
    \A c \in Clients :
        is_admin_session(c) =>
            /\ delete_user(c, current_user(c).id)
                   = outcome(users, session, CannotDeleteYourself)
            /\ \A t \in users :
                   t.id # current_user(c).id =>
                       LET o == delete_user(c, t.id)
                       IN /\ o = outcome(users \ {t}, session, Deleted(t.username))
                          /\ \A x \in o.users : x.id # t.id /\ x.username # t.username

\* C9 witness: a delete_user request has just removed another account: the
\* caller is still there and the account named in the message is not.
C9_Witness ==
    \E u \in Usernames :
        /\ resp = recorded("auth.delete_user", Deleted(u))
        /\ filter_by_username(u) = {}
        /\ \E c \in Clients : is_admin_session(c)

PasswordReset(username) ==
    redirect(url_for("auth.list_users"),
             <<"Password reset for '", username, "'. They must change it on next login.">>)

\* C10: reset_user_password of an admin session on an existing account (the
\* caller's own included) succeeds exactly when the new password passes
\* validate_password; the target then has password_must_change = true,
\* whatever the flag was, the new password and no other authenticates it, and
\* no other account changes.
C10_ResetSetsMustChange ==
    \A c \in Clients : is_admin_session(c) =>
        \A t \in users, p \in AllPasswords :
            LET o == reset_user_password(c, t.id, p)
                valid == p # <<>> /\ validate_password(p, <<>>).ok
                after == {a \in o.users : a.id = t.id}
            IN /\ valid <=> o.resp = PasswordReset(t.username)
               /\ ~valid => o.users = users
               /\ valid =>
                      /\ Cardinality(after) = 1
                      /\ o.users \ after = users \ {t}
                      /\ \A a \in after :
                             /\ a.password_must_change
                             /\ \A q \in AllPasswords : check_password(a, q) <=> q = p

\* C10 witness: an admin whose password_must_change was false at the start
\* (the fixture's testadmin) has just had the password reset from its own
\* session and must now change it.
C10_Witness ==
    \E c \in Clients :
        /\ is_admin_session(c)
        /\ current_user(c).username = "testadmin"
        /\ current_user(c).id = 1
        /\ current_user(c).password_must_change
        /\ resp = recorded("auth.reset_user_password", PasswordReset("testadmin"))

\* the outcome of a request that @login_required turns away
turned_away == outcome(users, session, unauthorized)

\* C11: in every reachable state, every request of a client without an
\* authenticated session (no cookie, or a cookie that names no account) to
\* logout, change-password (GET or POST), list-users, create-user, delete-user
\* or reset-password, whatever it carries, is redirected to the login page
\* and leaves the table and every cookie as they are.
C11_AnonymousRedirected ==
    [](\A c \in Clients : ~is_authenticated(c) =>
          /\ logout(c) = turned_away
          /\ list_users(c) = turned_away
          /\ \A m \in {"GET", "POST"}, p \in Passwords, q \in Passwords, r \in Passwords :
                 change_password(c, m, p, q, r) = turned_away
          /\ \A u \in Usernames, p \in Passwords : create_user(c, u, p) = turned_away
          /\ \A i \in Ids : delete_user(c, i) = turned_away
          /\ \A i \in Ids, p \in Passwords : reset_user_password(c, i, p) = turned_away)

\* C11 witness: a create_user request has just been redirected to the login
\* page while the table holds accounts and no client has a session.
C11_Witness ==
    /\ resp = recorded("auth.create_user", unauthorized)
    /\ users # {}
    /\ \A c \in Clients : ~is_authenticated(c)

InvalidCredentials == render_template("login.html", <<"Invalid username or password">>)

\* C12: where the table exists, a login POST of a client without a session
\* that carries a username and a password has one and the same outcome (the
\* login page with status 200 and 'Invalid username or password', no cookie
\* and no row changed) when the username is in no row, when it is an admin's
\* and the password is wrong, and when it is a non-admin's and the password
\* is wrong.
C12_LoginFailuresAlike ==
    [](\A c \in Clients : (tableExists /\ ~is_authenticated(c)) =>
          \A u \in Usernames \ {""}, p \in AllPasswords \ {<<>>}, n \in NextArgs :
              (\A row \in filter_by_username(u) : ~check_password(row, p)) =>
                  login(c, "POST", u, p, n) = outcome(users, session, InvalidCredentials))

\* C12 witness: a login has just been answered 'Invalid username or password'
\* while the table holds an admin and a non-admin, some username of the model
\* is in no row, and no client has a session.
C12_Witness ==
    /\ resp = recorded("auth.login", InvalidCredentials)
    /\ \E a \in users, b \in users : a.is_admin /\ ~b.is_admin
    /\ \E u \in Usernames \ {""} : filter_by_username(u) = {}
    /\ \A c \in Clients : ~is_authenticated(c)

\* C13: under every interleaving of the steps of create_user requests and of
\* create_default_admin (two requests that both pass the existence check
\* before either commits included), no two rows of the table have the same
\* username.
C13_UsernameUnique ==
    \A a \in users, b \in users : a.username = b.username => a = b

\* C13 witness: the store has just refused the row of a create_user request
\* that had passed the existence check: the username is in the table, once.
C13_Witness ==
    /\ resp = recorded("auth.create_user", server_error)
    /\ \E u \in Usernames : Cardinality(filter_by_username(u)) = 1

\* C14 (as claimed): every create_user request whose username is in the
\* table when its row is written, also one that passed the existence check
\* before a concurrent request wrote the username, is answered with the
\* redirect and 'already exists'.
C14_ConflictReported ==
    [][\A c \in Clients :
          (pending[c] # NoRequest /\ pending'[c] = NoRequest
              /\ filter_by_username(pending[c].username) # {}) =>
              resp' = recorded("auth.create_user", AlreadyExists(pending[c].username))]_vars

(***************************************************************************)
(* Password policy                                                         *)
(***************************************************************************)
\* the candidate satisfies the five composition rules
satisfies_composition(password) ==
    /\ Len(password) >= MinPasswordLength
    /\ \A k \in DOMAIN RuleClasses : \E i \in DOMAIN password : password[i] \in RuleClasses[k]

\* C15: for every candidate that satisfies the five composition rules
\* (length >= 10, an uppercase letter, a lowercase letter, a digit, a special
\* character), validate_password returns (True, "") when no previous password
\* is supplied or the previous one differs from the candidate, and (False,
\* "New password must be different from the current password") when the
\* previous one equals the candidate.
C15_CompliantAccepted ==
    (validation.done /\ satisfies_composition(validation.candidate)) =>
        validation.result =
            IF validation.previous = validation.candidate
            THEN [ok |-> FALSE, msg |-> MsgSame]
            ELSE [ok |-> TRUE, msg |-> ""]

\* a compliant candidate was validated against itself and refused for sameness
C15_Witness ==
    /\ validation.done
    /\ satisfies_composition(validation.candidate)
    /\ validation.previous = validation.candidate
    /\ validation.result = [ok |-> FALSE, msg |-> MsgSame]

\* the reasons in the order of the rules
Reasons == <<MsgLength, MsgUpper, MsgLower, MsgDigit, MsgSpecial, MsgSame>>

\* the numbers of the rules a call violates: 1 length, 2..5 the character
\* classes, 6 sameness
violated(password, previous) ==
    (IF Len(password) < MinPasswordLength THEN {1} ELSE {})
    \cup {k + 1 : k \in {j \in DOMAIN RuleClasses :
                             \A i \in DOMAIN password : password[i] \notin RuleClasses[j]}}
    \cup (IF previous # <<>> /\ previous = password THEN {Len(Reasons)} ELSE {})

\* C16: validate_password reports the reason of the lowest-numbered violated
\* rule in the order length, uppercase, lowercase, digit, special character,
\* sameness; a candidate shorter than 10 characters fails citing length
\* whatever its composition and whatever the previous password; the reason
\* is the empty string exactly when the result is success.
C16_FirstViolationWins ==
    validation.done =>
        LET bad == violated(validation.candidate, validation.previous)
        IN /\ bad = {} => validation.result = [ok |-> TRUE, msg |-> ""]
           /\ bad # {} =>
                  validation.result =
                      [ok |-> FALSE,
                       msg |-> Reasons[CHOOSE k \in bad : \A j \in bad : k <= j]]
           /\ Len(validation.candidate) < MinPasswordLength =>
                  validation.result = [ok |-> FALSE, msg |-> MsgLength]
           /\ (validation.result.msg = "") <=> validation.result.ok

\* a call that violates several rules at once, uppercase being the first, was
\* answered with the uppercase reason
C16_Witness ==
    /\ validation.done
    /\ {2, 4, 5} \subseteq violated(validation.candidate, validation.previous)
    /\ 1 \notin violated(validation.candidate, validation.previous)
    /\ validation.result = [ok |-> FALSE, msg |-> MsgUpper]

(***************************************************************************)
(* Redirect after login                                                    *)
(***************************************************************************)
\* the next argument, resolved against the request host, names another host
resolves_elsewhere(next_arg) ==
    urlparse(urljoin(HostUrl, next_arg)).netloc # urlparse(HostUrl).netloc

\* C17: after a successful login of an admin whose password_must_change is
\* false the redirect target is the next argument when is_safe_url accepts
\* it and the admin landing page otherwise; an empty next argument and one
\* that resolves to another host are never the redirect target.
C17_SafeNextOnly ==
    [](\A c \in Clients :
          (tableExists /\ ~is_authenticated(c)) =>
              \A u \in users :
                  (u.is_admin /\ ~u.password_must_change) =>
                      \A p \in AllPasswords \ {<<>>} :
                          check_password(u, p) =>
                              \A n \in NextArgs :
                                  \E out \in {login(c, "POST", u.username, p, n)} :
                                      /\ out.users = users
                                      /\ out.session = login_user(c, u)
                                      /\ out.resp =
                                             redirect(IF is_safe_url(n) THEN to_url(n)
                                                      ELSE url_for("main.admin"), <<>>)
                                      /\ (n = <<>> \/ resolves_elsewhere(n)) =>
                                             out.resp.location = url_for("main.admin"))

\* a login with a next argument of this site was redirected to it
C17_Witness ==
    /\ resp = recorded("auth.login", redirect(to_url(NextPath), <<>>))
    /\ is_safe_url(NextPath)
    /\ \E c \in Clients : is_authenticated(c) /\ ~current_user(c).password_must_change

(***************************************************************************)
(* Logout                                                                  *)
(***************************************************************************)
LoggedOut == redirect(url_for("main.index"), <<"You have been logged out successfully">>)

\* C18: logout by an authenticated session destroys that session and
\* changes no account; from then on every request of the same client to a
\* login-required operation is redirected to login, and the client's session
\* is bound again only by a successful login.
C18_LogoutEndsSession ==
    /\ [](\A c \in Clients :
             is_authenticated(c) =>
                 logout(c) = outcome(users, [session EXCEPT ![c] = 0], LoggedOut))
    /\ [](\A c \in Clients :
             session[c] = 0 =>
                 /\ logout(c) = turned_away
                 /\ list_users(c) = turned_away
                 /\ \A m \in {"GET", "POST"} : change_password(c, m, NewPw, NewPw, NewPw) = turned_away
                 /\ \A u \in Usernames : create_user(c, u, NewPw) = turned_away
                 /\ \A id \in Ids : /\ delete_user(c, id) = turned_away
                                    /\ reset_user_password(c, id, NewPw) = turned_away)
    /\ [][\A c \in Clients :
              (session[c] = 0 /\ session'[c] # 0) =>
                  /\ resp'.op = "auth.login"
                  /\ resp'.status = 302
                  /\ users' = users
                  /\ \E u \in users : u.id = session'[c] /\ u.is_admin]_vars

\* a client that was logged in has logged out
C18_Witness ==
    /\ resp = recorded("auth.logout", LoggedOut)
    /\ users # {}
    /\ \E c \in Clients : session[c] = 0

(***************************************************************************)
(* Login by a client that is logged in                                     *)
(***************************************************************************)
\* C19: a login request, GET or POST and with any credentials, of a client
\* whose session is bound to an account checks no credentials and leaves the
\* session bound to that account (and every row as it is); it redirects to
\* change-password when the account has password_must_change and to the
\* admin landing page otherwise.
C19_AuthenticatedLoginSkipped ==
    [](\A c \in Clients :
          is_authenticated(c) =>
              \E skipped \in {outcome(users, session,
                                       redirect(IF current_user(c).password_must_change
                                                THEN url_for("auth.change_password")
                                                ELSE url_for("main.admin"), <<>>))} :
                  /\ \A n \in NextArgs : login(c, "GET", "", <<>>, n) = skipped
                  /\ \A u \in Usernames, p \in AllPasswords :
                         \A n \in {NextNone} \cup LoginNextArgs :
                             login(c, "POST", u, p, n) = skipped)

\* a client bound to an account that must change its password has sent a
\* login request and was sent to change-password without the message of a
\* fresh login
C19_Witness ==
    /\ resp = recorded("auth.login", redirect(url_for("auth.change_password"), <<>>))
    /\ \E c \in Clients : is_authenticated(c) /\ current_user(c).password_must_change

(***************************************************************************)
(* Order of the checks of change_password                                  *)
(***************************************************************************)
\* the numbers of the checks a change-password form of an account fails:
\* 1 a field is missing, 2 the current password is wrong, 3 the new password
\* and its confirmation differ, 4 the new password is against the policy
failed_checks(user, cur, new, conf) ==
    (IF cur = <<>> \/ new = <<>> \/ conf = <<>> THEN {1} ELSE {})
    \cup (IF ~check_password(user, cur) THEN {2} ELSE {})
    \cup (IF new # conf THEN {3} ELSE {})
    \cup (IF ~validate_password(new, cur).ok THEN {4} ELSE {})

\* the message of each check
check_message(k, cur, new) ==
    CASE k = 1 -> "All fields are required"
      [] k = 2 -> "Current password is incorrect"
      [] k = 3 -> "New passwords do not match"
      [] k = 4 -> validate_password(new, cur).msg

\* C20: change_password checks, in this order, a missing field, the current
\* password, the equality of new password and confirmation, and the policy
\* (with the current password as the previous one); the first failing check
\* decides the message, and on every failure no row changes (the account
\* keeps its password hash and password_must_change) and the session stays
\* bound to the same account.
C20_ChangePasswordCheckOrder ==
    [](\A c \in Clients :
          is_authenticated(c) =>
              \A cur \in Passwords, new \in Passwords :
                  \A conf \in {<<>>, new, NewPw} :
                      \E bad \in {failed_checks(current_user(c), cur, new, conf)} :
                          bad # {} =>
                              change_password(c, "POST", cur, new, conf) =
                                  outcome(users, session,
                                      render_template("change_password.html",
                                          <<check_message(
                                                CHOOSE k \in bad : \A j \in bad : k <= j,
                                                cur, new)>>)))

\* a form was refused for its current password
C20_Witness ==
    /\ resp = recorded("auth.change_password",
                       render_template("change_password.html",
                                       <<"Current password is incorrect">>))
    /\ \E c \in Clients : is_authenticated(c)

(***************************************************************************)
(* Who clears password_must_change                                         *)
(***************************************************************************)
\* C21: the password_must_change of an account goes from true to false only
\* in a step that is a successful change_password of a session bound to that
\* account; login, logout, create_user, delete_user, reset_user_password,
\* the start-up and every refused request clear the flag of no account.
C21_FlagClearedByHolderOnly ==
    [][\A u \in users, v \in users' :
           (u.id = v.id /\ u.password_must_change /\ ~v.password_must_change) =>
               /\ resp' = recorded("auth.change_password", PasswordChanged)
               /\ \E c \in Clients : session[c] = u.id /\ session'[c] = u.id
               /\ v.username = u.username
               /\ users' \ {v} = users \ {u}]_vars

\* the account the start-up created has changed its password from its own
\* session and need no longer change it
C21_Witness ==
    /\ resp = recorded("auth.change_password", PasswordChanged)
    /\ \E c \in Clients :
           /\ is_authenticated(c)
           /\ current_user(c) \in filter_by_username("admin")
           /\ ~current_user(c).password_must_change

(***************************************************************************)
(* Requests that name no account                                           *)
(***************************************************************************)
\* the ids a request can name: those of the table's range and one beyond it
TargetIds == Ids \cup {MaxId + 1}

\* C22: delete_user of an admin session on an id that no account has, and
\* reset_user_password of an admin session with a password that passes
\* validate_password on such an id, answer 404 and leave every account and
\* every session as they are.
C22_MissingTargetNotFound ==
    [](\A c \in Clients :
          is_admin_session(c) =>
              \A id \in TargetIds :
                  query_get(id) = {} =>
                      /\ delete_user(c, id) = outcome(users, session, not_found)
                      /\ \A p \in AllPasswords :
                             (p # <<>> /\ validate_password(p, <<>>).ok) =>
                                 reset_user_password(c, id, p)
                                     = outcome(users, session, not_found))

\* an admin has asked for the deletion of an id that no account has
C22_Witness ==
    /\ resp = recorded("auth.delete_user", not_found)
    /\ \E id \in Ids : query_get(id) = {}
    /\ \E c \in Clients : is_admin_session(c)

(***************************************************************************)
(* Sessions and is_admin                                                   *)
(***************************************************************************)
AccessDenied == redirect(url_for("main.index"), <<"Access denied">>)

\* C25: in every reachable state every session that names an account names
\* one with is_admin = true: login binds admin accounts only and no step
\* changes the is_admin of a row, so list_users, create_user, delete_user
\* and reset_user_password never answer 'Access denied'.
C25_SessionsAreAdmin ==
    /\ [](\A c \in Clients : is_authenticated(c) => current_user(c).is_admin)
    /\ [][\A u \in users, v \in users' : u.id = v.id => v.is_admin = u.is_admin]_vars
    /\ [](\A c \in Clients :
             /\ list_users(c).resp # AccessDenied
             /\ create_user(c, "admin", NewPw).resp # AccessDenied
             /\ \A id \in Ids : /\ delete_user(c, id).resp # AccessDenied
                                /\ reset_user_password(c, id, NewPw).resp # AccessDenied)
    /\ [](resp.flash # <<"Access denied">>)

\* a session is served the list of users while the table also holds an
\* account that is no admin
C25_Witness ==
    /\ resp = recorded("auth.list_users", render_template("manage_users.html", <<>>))
    /\ \E u \in users : ~u.is_admin
    /\ \E c \in Clients : is_authenticated(c) /\ current_user(c).is_admin

(***************************************************************************)
(* The last admin                                                          *)
(***************************************************************************)
\* User.query.filter_by(is_admin=True): the admin rows of a table
admins(rows) == {u \in rows : u.is_admin}

\* C26: from a table with an admin account, no sequence of whole login,
\* logout, change-password, create-user, delete-user and reset-password
\* requests (nor the start-up) leads to a table without one: delete_user
\* never removes the last admin.
C26_AnAdminRemains ==
    [][admins(users) # {} => admins(users') # {}]_vars

\* a delete_user request has left exactly one admin, the caller
C26_Witness ==
    /\ resp.op = "auth.delete_user"
    /\ resp.status = 302
    /\ resp.flash # <<"You cannot delete yourself">>
    /\ Cardinality(admins(users)) = 1
    /\ \E c \in Clients : is_authenticated(c) /\ admins(users) = {current_user(c)}

(***************************************************************************)
(* Two admins deleting each other                                          *)
(***************************************************************************)
\* C27: when delete_user requests of two authenticated admins interleave
\* (each loads its session's account, compares the target id with its own,
\* looks the target up, deletes it and commits), an admin account remains in
\* the table when a request finishes, also when each targets the other.
C27_AnAdminRemainsInterleaved ==
    [][\A c \in Clients :
           (deleting[c] # NoDelete /\ deleting'[c] = NoDelete /\ admins(users) # {}) =>
               admins(users') # {}]_vars

(***************************************************************************)
(* Sessions of deleted accounts                                            *)
(***************************************************************************)
\* the session cookie of client c names an id that no account has
stale_session(c) == session[c] # 0 /\ load_user(c) = {}

\* C28: after delete_user has removed an account, a session that was
\* established for it is handled as unauthenticated from then on, also after
\* further accounts have been created: a cookie that names no account does
\* not come to name an account unless the client logs in again.
C28_DeletedAccountSessionDead ==
    [][\A c \in Clients :
           (stale_session(c) /\ session'[c] = session[c]) => stale_session(c)']_vars

(***************************************************************************)
(* Sessions and password rotation                                          *)
(***************************************************************************)
\* C29: an established session stays authenticated across every rotation of
\* its account's password: in a step that answers a change_password or a
\* reset_user_password request, of this client or of another, every session
\* that names an account keeps naming that account, and the client's
\* login-required requests are served afterwards.
C29_SessionSurvivesRotation ==
    [][\A c \in Clients :
           (is_authenticated(c)
                /\ resp'.op \in {"auth.change_password", "auth.reset_user_password"}) =>
               /\ session'[c] = session[c]
               /\ is_authenticated(c)'
               /\ current_user(c)'.username = current_user(c).username
               /\ list_users(c)'.resp.status = 200]_vars

\* the password of an account was reset while a session of its own and a
\* session of another admin are open
C29_Witness ==
    \E c \in Clients, d \in Clients :
        /\ is_authenticated(c) /\ is_authenticated(d)
        /\ current_user(c).id # current_user(d).id
        /\ current_user(c).password_must_change
        /\ resp = recorded("auth.reset_user_password", PasswordReset(current_user(c).username))


\* the redirect to the login page as a handler of routes.py gives it
turned_away_api == with_json(unauthorized, None)

C24_AnonymousListing ==
    ~is_authenticated(Browser) =>
        /\ floorplans(Browser, "GET", NoFiles, <<>>, <<>>, 0).resp =
               jsonify([i \in 1..Cardinality(floorplan) |->
                            floorplan_to_dict(by_id(floorplan)[i])], 200)
        /\ resources(Browser, "GET", <<>>).resp =
               jsonify([i \in 1..Cardinality(resource) |->
                            resource_to_dict(by_id(resource)[i])], 200)

\* C30: every stored resource of type room, printer, person or bathroom has
\* null in each type-specific column that belongs to one of the other three
\* types.
C30_OtherTypeFieldsNull ==
    \A r \in resource :
        r.type \in ResourceTypes =>
            \A k \in TypeFields \ own_fields(r.type) : r[k] = None

\* a PUT has just answered with a resource of one of the four types that
\* carries a value in a field of its own type
C30_Witness ==
    /\ resp.op = "main.resource_detail"
    /\ resp.method = "PUT"
    /\ resp.status = 200
    /\ \E r \in resource :
        /\ r.type = "printer"
        /\ r.printer_name = "v"
        /\ resp.json = resource_to_dict(r)
====
